---------------------------- MODULE Spec2Model ----------------------------
(***************************************************************************)
(* The entity registry (entity_manager) and the hierarchical transform     *)
(* system (transform_system) of polymer's entity-component-system sample.  *)
(*                                                                         *)
(* The two storage tables of transform_system are std::unordered_map, so   *)
(* they are modelled as functions whose DOMAIN is the set of keys present. *)
(* operator[] on a missing key inserts a default-constructed record, which *)
(* the model keeps: Index is operator[], Erase is erase(key).              *)
(***************************************************************************)
EXTENDS Integers, Sequences, FiniteSets, TLC

(***************************************************************************)
(* Bounds of the model.                                                    *)
(***************************************************************************)
MaxEntity == 3      \* entity arguments range over 0..MaxEntity
NumPoses == 2       \* distinct non-identity poses a caller passes to create
MaxCalls == 6       \* calls made on one transform_system / registry
NumThreads == 3     \* threads calling entity_manager::create concurrently
MaxThreadCalls == 4 \* create() calls those threads start altogether
MaxRegCalls == 3    \* calls made on the registry and its data-component systems
MaxSystems == 3     \* system instances constructed
NumValues == 2      \* distinct payload values of a data component

kInvalidEntity == 0

Entity == 0..MaxEntity
Threads == 1..NumThreads

(***************************************************************************)
(* polymer::Pose and its operator*.  Composition is an abstract            *)
(* associative, non-commutative operation with an identity: the free       *)
(* monoid over pose letters.  A default-constructed Pose is the identity.  *)
(***************************************************************************)
DefaultPose == <<>>
Poses == {<<i>> : i \in 1..NumPoses}
Compose(a, b) == a \o b

DefaultScale == "zero"
Scales == {"unit"}

VARIABLES
    entity_counter,          \* entity_manager::entity_counter
    createMutex,             \* entity_manager::createMutex: 0 or the holding thread
    pc,                      \* per thread: position inside entity_manager::create
    tmp,                     \* per thread: the value ++entity_counter computed
    returned,                \* ids returned by entity_manager::create, in order of return
    scene_graph_transforms,  \* transform_system::scene_graph_transforms
    world_transforms,        \* transform_system::world_transforms
    status,                  \* "running", or "stack_overflow" after unbounded recursion
    last,                    \* the last call made: op, args, outcome, val
    pre,                     \* tables, heap and systems as they were just before the last call
    calls,                   \* number of calls made so far
    heap,                    \* the system instances constructed, by address 1, 2, ...
    systems,                 \* entity_manager::systems
    system_type_map,         \* entity_manager::system_type_map
    frame,                   \* main's stress loop: its position and its locals
    stack,                   \* the invocations of destroy_recursive in progress, innermost first
    destroyed                \* entities whose records destroy removed and create has not made again

vars == <<entity_counter, createMutex, pc, tmp, returned, scene_graph_transforms,
          world_transforms, status, last, pre, calls, heap, systems, system_type_map,
          frame, stack, destroyed>>

threadVars == <<createMutex, pc, tmp>>
regVars == <<heap, systems, system_type_map>>
stepVars == <<frame, stack>>

Snapshot ==
    [sg |-> scene_graph_transforms, wt |-> world_transforms,
     heap |-> heap, systems |-> systems]
xformVars == <<scene_graph_transforms, world_transforms, status>>

(***************************************************************************)
(* Component records.                                                      *)
(***************************************************************************)
scene_graph_component(e) ==
    [e |-> e, local_pose |-> DefaultPose, local_scale |-> DefaultScale,
     parent |-> kInvalidEntity, children |-> <<>>]

world_transform_component(e) == [e |-> e, world_pose |-> DefaultPose]

\* std::unordered_map::operator[]: the map with key k present (default d if it was not)
Index(m, k, d) == IF k \in DOMAIN m THEN m ELSE m @@ (k :> d)

\* std::unordered_map::erase(key)
Erase(m, k) == [x \in DOMAIN m \ {k} |-> m[x]]

\* the list with only the first occurrence of x taken out (find + erase)
RECURSIVE RemoveFirst(_, _)
RemoveFirst(s, x) ==
    IF s = <<>> THEN <<>>
    ELSE IF Head(s) = x THEN Tail(s)
    ELSE <<Head(s)>> \o RemoveFirst(Tail(s), x)

\* std::remove + vector::erase: every occurrence of x taken out, order kept
RECURSIVE RemoveAll(_, _)
RemoveAll(s, x) ==
    IF s = <<>> THEN <<>>
    ELSE IF Head(s) = x THEN RemoveAll(Tail(s), x)
    ELSE <<Head(s)>> \o RemoveAll(Tail(s), x)

Tables == [sg |-> scene_graph_transforms, wt |-> world_transforms, ovf |-> FALSE]

(***************************************************************************)
(* recalculate_world_transform.  S is the pair of tables; path is the set  *)
(* of entities whose invocation is still on the call stack.  The children  *)
(* lists do not change during the pass, so re-entering an entity of path   *)
(* means the recursion never ends: ovf records the stack overflow.         *)
(***************************************************************************)
RECURSIVE recalculate_world_transform(_, _, _)
RECURSIVE recalculate_children(_, _, _, _)

\* recalculate_world_transform composing parent_node.local_pose * node.local_pose
recalculate_operands_swapped(S, child, path) ==
    LET sg1 == Index(S.sg, child, scene_graph_component(kInvalidEntity))
        wt1 == Index(S.wt, child, world_transform_component(kInvalidEntity))
        node == sg1[child]
        sg2 == IF node.parent # kInvalidEntity
               THEN Index(sg1, node.parent, scene_graph_component(kInvalidEntity))
               ELSE sg1
        pose == IF node.parent # kInvalidEntity
                THEN Compose(sg2[node.parent].local_pose, node.local_pose)
                ELSE node.local_pose
        wt2 == [wt1 EXCEPT ![child].world_pose = pose]
    IN  IF child \in path THEN [S EXCEPT !.ovf = TRUE]
        ELSE recalculate_children([sg |-> sg2, wt |-> wt2, ovf |-> FALSE],
                                  node.children, 1, path \cup {child})

recalculate_world_transform(S, child, path) ==
    LET sg1 == Index(S.sg, child, scene_graph_component(kInvalidEntity))
        wt1 == Index(S.wt, child, world_transform_component(kInvalidEntity))
        node == sg1[child]
        sg2 == IF node.parent # kInvalidEntity
               THEN Index(sg1, node.parent, scene_graph_component(kInvalidEntity))
               ELSE sg1
        pose == IF node.parent # kInvalidEntity
                THEN Compose(node.local_pose, sg2[node.parent].local_pose)
                ELSE node.local_pose
        wt2 == [wt1 EXCEPT ![child].world_pose = pose]
    IN  IF child \in path THEN [S EXCEPT !.ovf = TRUE]
        ELSE recalculate_children([sg |-> sg2, wt |-> wt2, ovf |-> FALSE],
                                  node.children, 1, path \cup {child})

recalculate_children(S, cs, i, path) ==
    IF S.ovf \/ i > Len(cs) THEN S
    ELSE recalculate_children(recalculate_world_transform(S, cs[i], path), cs, i + 1, path)

(***************************************************************************)
(* destroy_recursive.  A node is erased only after the loop over its       *)
(* children, so an entity of path still has its record and its children    *)
(* list: re-entering it repeats the same descent without end.              *)
(***************************************************************************)
RECURSIVE destroy_recursive(_, _, _)
RECURSIVE destroy_children(_, _, _, _)

\* destroy_recursive that erases the node's two records without visiting its children
destroy_node_only(S, child, path) ==
    [sg |-> Erase(S.sg, child), wt |-> Erase(S.wt, child), ovf |-> FALSE]

destroy_recursive(S, child, path) ==
    LET sg1 == Index(S.sg, child, scene_graph_component(kInvalidEntity))
        S2 == destroy_children([S EXCEPT !.sg = sg1], sg1[child].children, 1,
                               path \cup {child})
    IN  IF child \in path THEN [S EXCEPT !.ovf = TRUE]
        ELSE IF S2.ovf THEN S2
        ELSE [sg |-> Erase(S2.sg, child), wt |-> Erase(S2.wt, child), ovf |-> FALSE]

destroy_children(S, cs, i, path) ==
    IF S.ovf \/ i > Len(cs) THEN S
    ELSE destroy_children(destroy_recursive(S, cs[i], path), cs, i + 1, path)

(***************************************************************************)
(* The lookups, as functions of the current tables.  A pointer result is   *)
(* <<>> for nullptr and <<e>> for the address of the record under key e.   *)
(***************************************************************************)
has_transform(e) == e \in DOMAIN scene_graph_transforms

get_local_transform(e) ==
    IF e = kInvalidEntity THEN <<>>
    ELSE IF e \in DOMAIN scene_graph_transforms THEN <<e>> ELSE <<>>

get_world_transform(e) ==
    IF e = kInvalidEntity THEN <<>>
    ELSE IF e \in DOMAIN world_transforms THEN <<e>> ELSE <<>>

get_parent(child) ==
    IF child = kInvalidEntity THEN kInvalidEntity
    ELSE IF child \in DOMAIN scene_graph_transforms
         THEN scene_graph_transforms[child].parent
         ELSE kInvalidEntity

(***************************************************************************)
(* How a call on the transform system ends: S holds the tables it leaves,  *)
(* outcome is "returned" or "invalid_argument" (std::invalid_argument      *)
(* thrown to the caller); a pass that never ends overrides both.           *)
(***************************************************************************)
\* the entities whose records a destroy call has removed, create not called for them
\* since, after the call op(args) that leaves the tables S
Destroyed(op, args, S) ==
    IF op = "create" THEN destroyed \ {args[1]}
    ELSE IF op = "destroy"
         THEN destroyed \cup ((DOMAIN scene_graph_transforms \cup DOMAIN world_transforms)
                                  \ (DOMAIN S.sg \cup DOMAIN S.wt))
         ELSE destroyed

Finish(op, args, S, outcome, val) ==
    /\ scene_graph_transforms' = S.sg
    /\ world_transforms' = S.wt
    /\ status' = IF S.ovf THEN "stack_overflow" ELSE "running"
    /\ last' = [op |-> op, args |-> args,
                outcome |-> IF S.ovf THEN "stack_overflow" ELSE outcome,
                val |-> IF S.ovf THEN <<>> ELSE val]
    /\ pre' = Snapshot
    /\ calls' = calls + 1
    /\ destroyed' = IF S.ovf THEN destroyed ELSE Destroyed(op, args, S)
    /\ UNCHANGED <<entity_counter, returned, threadVars, regVars, stepVars>>

\* a caller may start a call: the program runs and no call is in progress
CanCall == status = "running" /\ calls < MaxCalls /\ stack = <<>>

\* create that inserts the two records and never recomputes the world transform
create_no_recalculate(e, local_pose, local_scale) ==
    LET sg1 == [x \in DOMAIN scene_graph_transforms \cup {e} |->
                   IF x = e
                   THEN [scene_graph_component(e) EXCEPT !.local_pose = local_pose,
                                                         !.local_scale = local_scale]
                   ELSE scene_graph_transforms[x]]
        wt1 == [x \in DOMAIN world_transforms \cup {e} |->
                   IF x = e THEN world_transform_component(e) ELSE world_transforms[x]]
    IN  /\ CanCall
        /\ Finish("create", <<e, local_pose, local_scale>>,
                  [sg |-> sg1, wt |-> wt1, ovf |-> FALSE], "returned", <<TRUE>>)

\* transform_system::create(entity, Pose, float3)
create(e, local_pose, local_scale) ==
    LET sg1 == [x \in DOMAIN scene_graph_transforms \cup {e} |->
                   IF x = e
                   THEN [scene_graph_component(e) EXCEPT !.local_pose = local_pose,
                                                         !.local_scale = local_scale]
                   ELSE scene_graph_transforms[x]]
        wt1 == [x \in DOMAIN world_transforms \cup {e} |->
                   IF x = e THEN world_transform_component(e) ELSE world_transforms[x]]
    IN  /\ CanCall
        /\ Finish("create", <<e, local_pose, local_scale>>,
                  recalculate_world_transform([sg |-> sg1, wt |-> wt1, ovf |-> FALSE], e, {}),
                  "returned", <<TRUE>>)

\* add_child that never checks that child has a scene-graph record
add_child_unchecked_child(parent, child) ==
    /\ CanCall
    /\ IF \/ parent = kInvalidEntity
          \/ child = kInvalidEntity
          \/ ~has_transform(parent)
       THEN Finish("add_child", <<parent, child>>, Tables, "invalid_argument", <<>>)
       ELSE LET sg0 == Index(scene_graph_transforms, child,
                             scene_graph_component(kInvalidEntity))
                sg1 == [sg0 EXCEPT ![parent].children = Append(@, child)]
                sg2 == [sg1 EXCEPT ![child].parent = parent]
            IN  Finish("add_child", <<parent, child>>,
                       recalculate_world_transform(
                           [sg |-> sg2, wt |-> world_transforms, ovf |-> FALSE], parent, {}),
                       "returned", <<TRUE>>)

\* add_child that inserts child at the front of the children list
add_child_at_front(parent, child) ==
    /\ CanCall
    /\ IF \/ parent = kInvalidEntity
          \/ child = kInvalidEntity
          \/ ~has_transform(parent)
          \/ ~has_transform(child)
       THEN Finish("add_child", <<parent, child>>, Tables, "invalid_argument", <<>>)
       ELSE LET sg1 == [scene_graph_transforms EXCEPT
                           ![parent].children = <<child>> \o @]
                sg2 == [sg1 EXCEPT ![child].parent = parent]
            IN  Finish("add_child", <<parent, child>>,
                       recalculate_world_transform(
                           [sg |-> sg2, wt |-> world_transforms, ovf |-> FALSE], parent, {}),
                       "returned", <<TRUE>>)

\* transform_system::add_child
add_child(parent, child) ==
    /\ CanCall
    /\ IF \/ parent = kInvalidEntity
          \/ child = kInvalidEntity
          \/ ~has_transform(parent)
          \/ ~has_transform(child)
       THEN Finish("add_child", <<parent, child>>, Tables, "invalid_argument", <<>>)
       ELSE LET sg1 == [scene_graph_transforms EXCEPT
                           ![parent].children = Append(@, child)]
                sg2 == [sg1 EXCEPT ![child].parent = parent]
            IN  Finish("add_child", <<parent, child>>,
                       recalculate_world_transform(
                           [sg |-> sg2, wt |-> world_transforms, ovf |-> FALSE], parent, {}),
                       "returned", <<TRUE>>)

\* transform_system::remove_parent
remove_parent(child) ==
    LET sg1 == Index(scene_graph_transforms, child, scene_graph_component(kInvalidEntity))
        p == sg1[child].parent
        sg2 == Index(sg1, p, scene_graph_component(kInvalidEntity))
        sg3 == [sg2 EXCEPT ![p].children = RemoveAll(@, child)]
        sg4 == [sg3 EXCEPT ![child].parent = kInvalidEntity]
    IN  /\ CanCall
        /\ IF p # kInvalidEntity
           THEN Finish("remove_parent", <<child>>,
                       recalculate_world_transform(
                           [sg |-> sg4, wt |-> world_transforms, ovf |-> FALSE], child, {}),
                       "returned", <<>>)
           ELSE Finish("remove_parent", <<child>>,
                       [sg |-> sg1, wt |-> world_transforms, ovf |-> FALSE],
                       "returned", <<>>)

\* destroy that never checks that e has a scene-graph record
destroy_unchecked(e) ==
    /\ CanCall
    /\ IF e = kInvalidEntity
       THEN Finish("destroy", <<e>>, Tables, "invalid_argument", <<>>)
       ELSE Finish("destroy", <<e>>, destroy_recursive(Tables, e, {}), "returned", <<>>)

\* transform_system::destroy
destroy(e) ==
    /\ CanCall
    /\ IF e = kInvalidEntity \/ ~has_transform(e)
       THEN Finish("destroy", <<e>>, Tables, "invalid_argument", <<>>)
       ELSE Finish("destroy", <<e>>, destroy_recursive(Tables, e, {}), "returned", <<>>)

\* the four lookups, called
lookup(e) ==
    /\ CanCall
    /\ \/ Finish("has_transform", <<e>>, Tables, "returned", <<has_transform(e)>>)
       \/ Finish("get_local_transform", <<e>>, Tables, "returned", get_local_transform(e))
       \/ Finish("get_world_transform", <<e>>, Tables, "returned", get_world_transform(e))
       \/ Finish("get_parent", <<e>>, Tables, "returned", <<get_parent(e)>>)

\* entity_manager::create returning entity_counter++ instead of ++entity_counter
em_create_post_increment ==
    /\ CanCall
    /\ entity_counter < MaxEntity
    /\ entity_counter' = entity_counter + 1
    /\ returned' = Append(returned, entity_counter)
    /\ last' = [op |-> "entity_manager::create", args |-> <<>>,
                outcome |-> "returned", val |-> <<entity_counter>>]
    /\ pre' = Snapshot
    /\ calls' = calls + 1
    /\ UNCHANGED <<xformVars, threadVars, regVars, stepVars, destroyed>>

\* entity_manager::create, called by a single thread: lock, ++entity_counter, return
em_create ==
    /\ CanCall
    /\ entity_counter < MaxEntity
    /\ entity_counter' = entity_counter + 1
    /\ returned' = Append(returned, entity_counter + 1)
    /\ last' = [op |-> "entity_manager::create", args |-> <<>>,
                outcome |-> "returned", val |-> <<entity_counter + 1>>]
    /\ pre' = Snapshot
    /\ calls' = calls + 1
    /\ UNCHANGED <<xformVars, threadVars, regVars, stepVars, destroyed>>

Init ==
    /\ entity_counter = 0
    /\ createMutex = 0
    /\ pc = [t \in Threads |-> "idle"]
    /\ tmp = [t \in Threads |-> 0]
    /\ returned = <<>>
    /\ scene_graph_transforms = <<>>
    /\ world_transforms = <<>>
    /\ status = "running"
    /\ last = [op |-> "none", args |-> <<>>, outcome |-> "returned", val |-> <<>>]
    /\ pre = [sg |-> <<>>, wt |-> <<>>, heap |-> <<>>, systems |-> <<>>]
    /\ calls = 0
    /\ heap = <<>>
    /\ systems = <<>>
    /\ system_type_map = <<>>
    /\ frame = [at |-> "root_id", i |-> 0, c |-> 0, rootEntity |-> 0, childEntity |-> 0]
    /\ stack = <<>>
    /\ destroyed = {}

Next ==
    \/ \E e \in Entity, p \in Poses, s \in Scales : create(e, p, s)
    \/ \E p \in Entity, c \in Entity : add_child(p, c)
    \/ \E e \in Entity : remove_parent(e)
    \/ \E e \in Entity : destroy(e)
    \/ \E e \in Entity : lookup(e)
    \/ em_create

Spec == Init /\ [][Next]_vars

(***************************************************************************)
(* entity_manager::create called from several threads.  One call is four   *)
(* steps: the lock_guard takes createMutex, ++entity_counter loads the     *)
(* counter and stores it incremented (e is the stored value), and the      *)
(* return copies e out as the guard releases the mutex.                    *)
(***************************************************************************)
\* entity_manager::create without the lock_guard: the call never waits for the mutex
t_no_lock(t) ==
    /\ pc[t] = "idle"
    /\ calls < MaxThreadCalls
    /\ createMutex' = t
    /\ pc' = [pc EXCEPT ![t] = "locked"]
    /\ calls' = calls + 1
    /\ UNCHANGED <<entity_counter, tmp, returned, xformVars, regVars, last, pre, stepVars, destroyed>>

t_lock(t) ==
    /\ pc[t] = "idle"
    /\ calls < MaxThreadCalls
    /\ createMutex = 0
    /\ createMutex' = t
    /\ pc' = [pc EXCEPT ![t] = "locked"]
    /\ calls' = calls + 1
    /\ UNCHANGED <<entity_counter, tmp, returned, xformVars, regVars, last, pre, stepVars, destroyed>>

t_load(t) ==
    /\ pc[t] = "locked"
    /\ tmp' = [tmp EXCEPT ![t] = entity_counter]
    /\ pc' = [pc EXCEPT ![t] = "loaded"]
    /\ UNCHANGED <<entity_counter, createMutex, returned, xformVars, regVars, last, pre, calls, stepVars, destroyed>>

t_store(t) ==
    /\ pc[t] = "loaded"
    /\ entity_counter' = tmp[t] + 1
    /\ tmp' = [tmp EXCEPT ![t] = tmp[t] + 1]
    /\ pc' = [pc EXCEPT ![t] = "stored"]
    /\ UNCHANGED <<createMutex, returned, xformVars, regVars, last, pre, calls, stepVars, destroyed>>

t_return(t) ==
    /\ pc[t] = "stored"
    /\ returned' = Append(returned, tmp[t])
    /\ createMutex' = IF createMutex = t THEN 0 ELSE createMutex
    /\ pc' = [pc EXCEPT ![t] = "idle"]
    /\ UNCHANGED <<entity_counter, tmp, xformVars, regVars, last, pre, calls, stepVars, destroyed>>

NextThreads ==
    \/ \E t \in Threads : t_lock(t)
    \/ \E t \in Threads : t_load(t)
    \/ \E t \in Threads : t_store(t)
    \/ \E t \in Threads : t_return(t)

SpecThreads == Init /\ [][NextThreads]_vars

(***************************************************************************)
(* The registry of systems and the type-erased base_system interface.      *)
(* A system instance is a heap cell [type, components]; its address is its *)
(* index in heap, 0 is nullptr.  components is the std::unordered_map of   *)
(* ex_system_one / ex_system_two; the tables of a transform_system are     *)
(* scene_graph_transforms and world_transforms, which the type-erased      *)
(* create does not touch, so its cell keeps components empty.  The         *)
(* payload behind the void pointer is a component of the type the hash     *)
(* names: its own entity tag e and its value (value1..value3 as one).      *)
(***************************************************************************)
SystemTypes == {"ex_system_one", "ex_system_two", "transform_system"}

ComponentTypes == {"physics_component", "render_component",
                   "scene_graph_component", "world_transform_component"}

\* the component types a system registers for itself in its constructor
Owns(T) ==
    CASE T = "ex_system_one" -> {"physics_component"}
      [] T = "ex_system_two" -> {"render_component"}
      [] T = "transform_system" -> {"scene_graph_component", "world_transform_component"}

Values == 1..NumValues
Payloads == [e : Entity, value : Values]
Pointers == 0..MaxSystems

RegCanCall == calls < MaxRegCalls

RegFinish(op, args, val) ==
    /\ last' = [op |-> op, args |-> args, outcome |-> "returned", val |-> val]
    /\ pre' = Snapshot
    /\ calls' = calls + 1
    /\ UNCHANGED <<entity_counter, returned, threadVars, xformVars, stepVars, destroyed>>

\* add_system that assigns systems[system_type] = system whenever system is not null
add_system_overwrite(m, system_type, system) ==
    IF system = 0 THEN m
    ELSE [t \in DOMAIN m \cup {system_type} |-> IF t = system_type THEN system ELSE m[t]]

\* entity_manager::add_system, as a function of the systems map m
add_system(m, system_type, system) ==
    IF system = 0 THEN m
    ELSE IF system_type \notin DOMAIN m THEN m @@ (system_type :> system)
    ELSE m

\* entity_manager::add_system, called
call_add_system(system_type, system) ==
    /\ RegCanCall
    /\ systems' = add_system(systems, system_type, system)
    /\ UNCHANGED <<heap, system_type_map>>
    /\ RegFinish("add_system", <<system_type, system>>, <<>>)

\* entity_manager::register_system_for_type for every type of the set types
register_system_for_types(m, system_type, types) ==
    [c \in DOMAIN m \cup types |-> IF c \in types THEN system_type ELSE m[c]]

\* entity_manager::create_system<T>: new T (whose constructor registers its
\* component types), add_system, return the pointer
create_system(T) ==
    /\ RegCanCall
    /\ Len(heap) < MaxSystems
    /\ heap' = Append(heap, [type |-> T, components |-> <<>>])
    /\ system_type_map' = register_system_for_types(system_type_map, T, Owns(T))
    /\ systems' = add_system(systems, T, Len(heap) + 1)
    /\ RegFinish("create_system", <<T>>, <<Len(heap) + 1>>)

\* ex_system_one::create / ex_system_two::create on the table components:
\* the table afterwards and the value returned
ex_system_create(components, owned, e, hash, data) ==
    IF hash # owned THEN [components |-> components, val |-> FALSE]
    ELSE [components |-> [x \in DOMAIN components \cup {e} |->
                              IF x = e THEN data ELSE components[x]],
          val |-> TRUE]

\* base_system::create(entity, poly_typeid, void *) on the instance at address ptr
system_create(ptr, e, hash, data) ==
    LET T == heap[ptr].type
        r == CASE T = "ex_system_one" ->
                      ex_system_create(heap[ptr].components, "physics_component",
                                       e, hash, data)
               [] T = "ex_system_two" ->
                      ex_system_create(heap[ptr].components, "render_component",
                                       e, hash, data)
               [] T = "transform_system" ->
                      [components |-> heap[ptr].components, val |-> TRUE]
    IN  /\ RegCanCall
        /\ heap' = [heap EXCEPT ![ptr].components = r.components]
        /\ UNCHANGED <<systems, system_type_map>>
        /\ RegFinish("system_create", <<ptr, e, hash, data>>, <<r.val>>)

\* ex_system_one::destroy / ex_system_two::destroy on the instance at address ptr
system_destroy(ptr, e) ==
    /\ RegCanCall
    /\ heap[ptr].type # "transform_system"
    /\ UNCHANGED <<heap, systems, system_type_map>>
    /\ RegFinish("system_destroy", <<ptr, e>>, <<>>)

NextRegistry ==
    \/ \E T \in SystemTypes : create_system(T)
    \/ \E T \in SystemTypes, q \in Pointers : call_add_system(T, q)
    \/ \E ptr \in DOMAIN heap, e \in Entity, h \in ComponentTypes, d \in Payloads :
           system_create(ptr, e, h, d)
    \/ \E ptr \in DOMAIN heap, e \in Entity : system_destroy(ptr, e)

SpecRegistry == Init /\ [][NextRegistry]_vars

(***************************************************************************)
(* The stress loop of main: for each of StressRoots roots, a fresh id and  *)
(* a transform for the root, then StressChildren times a fresh id and a    *)
(* transform for a child and add_child(rootEntity, childEntity).  frame    *)
(* holds the loop counters i and c, the two locals and the statement main  *)
(* is at.  Every pose is a random one; the scale is float3(1, 1, 1).  An   *)
(* exception leaving add_child is not caught by main: the program ends.    *)
(***************************************************************************)
StressRoots == 2
StressChildren == 2

\* the tables transform_system::create(e, local_pose, local_scale) leaves
create_tables(e, local_pose, local_scale) ==
    LET sg1 == [x \in DOMAIN scene_graph_transforms \cup {e} |->
                   IF x = e
                   THEN [scene_graph_component(e) EXCEPT !.local_pose = local_pose,
                                                         !.local_scale = local_scale]
                   ELSE scene_graph_transforms[x]]
        wt1 == [x \in DOMAIN world_transforms \cup {e} |->
                   IF x = e THEN world_transform_component(e) ELSE world_transforms[x]]
    IN  recalculate_world_transform([sg |-> sg1, wt |-> wt1, ovf |-> FALSE], e, {})

\* add_child that recomputes the parent's subtree before it sets child's parent field
add_child_tables_recalculate_first(parent, child) ==
    IF \/ parent = kInvalidEntity
       \/ child = kInvalidEntity
       \/ ~has_transform(parent)
       \/ ~has_transform(child)
    THEN [S |-> Tables, outcome |-> "invalid_argument"]
    ELSE LET sg1 == [scene_graph_transforms EXCEPT ![parent].children = Append(@, child)]
             S2 == recalculate_world_transform(
                       [sg |-> sg1, wt |-> world_transforms, ovf |-> FALSE], parent, {})
         IN  [S |-> [S2 EXCEPT !.sg = [S2.sg EXCEPT ![child].parent = parent]],
              outcome |-> "returned"]

\* the tables transform_system::add_child(parent, child) leaves, and how it ends
add_child_tables(parent, child) ==
    IF \/ parent = kInvalidEntity
       \/ child = kInvalidEntity
       \/ ~has_transform(parent)
       \/ ~has_transform(child)
    THEN [S |-> Tables, outcome |-> "invalid_argument"]
    ELSE LET sg1 == [scene_graph_transforms EXCEPT ![parent].children = Append(@, child)]
             sg2 == [sg1 EXCEPT ![child].parent = parent]
         IN  [S |-> recalculate_world_transform(
                        [sg |-> sg2, wt |-> world_transforms, ovf |-> FALSE], parent, {}),
              outcome |-> "returned"]

\* a call made by main on the transform system ends and main moves on to frame f
LoopFinish(op, args, S, outcome, val, f) ==
    /\ scene_graph_transforms' = S.sg
    /\ world_transforms' = S.wt
    /\ status' = IF S.ovf THEN "stack_overflow" ELSE "running"
    /\ last' = [op |-> op, args |-> args,
                outcome |-> IF S.ovf THEN "stack_overflow" ELSE outcome,
                val |-> IF S.ovf THEN <<>> ELSE val]
    /\ pre' = Snapshot
    /\ calls' = calls + 1
    /\ destroyed' = IF S.ovf THEN destroyed ELSE Destroyed(op, args, S)
    /\ frame' = IF S.ovf \/ outcome = "invalid_argument"
                THEN [f EXCEPT !.at = "terminated"] ELSE f
    /\ UNCHANGED <<entity_counter, returned, threadVars, regVars, stack>>

\* a call of entity_manager::create by main, its result stored in the local at field
LoopCreateId(field, at) ==
    /\ entity_counter' = entity_counter + 1
    /\ returned' = Append(returned, entity_counter + 1)
    /\ last' = [op |-> "entity_manager::create", args |-> <<>>,
                outcome |-> "returned", val |-> <<entity_counter + 1>>]
    /\ pre' = Snapshot
    /\ calls' = calls + 1
    /\ frame' = [frame EXCEPT ![field] = entity_counter + 1, !.at = at]
    /\ UNCHANGED <<xformVars, threadVars, regVars, stack, destroyed>>

\* auto rootEntity = factory.create();
loop_rootEntity ==
    /\ frame.at = "root_id"
    /\ frame.i < StressRoots
    /\ LoopCreateId("rootEntity", "root_create")

\* xform_system->create(rootEntity, Pose(...), float3(1, 1, 1));
loop_create_root ==
    /\ frame.at = "root_create"
    /\ \E p \in Poses :
           LoopFinish("create", <<frame.rootEntity, p, "unit">>,
                      create_tables(frame.rootEntity, p, "unit"), "returned", <<TRUE>>,
                      [frame EXCEPT !.c = 0,
                                    !.i = IF StressChildren = 0 THEN @ + 1 ELSE @,
                                    !.at = IF StressChildren = 0 THEN "root_id"
                                           ELSE "child_id"])

\* auto childEntity = factory.create();
loop_childEntity ==
    /\ frame.at = "child_id"
    /\ LoopCreateId("childEntity", "child_create")

\* xform_system->create(childEntity, Pose(...), float3(1, 1, 1));
loop_create_child ==
    /\ frame.at = "child_create"
    /\ \E p \in Poses :
           LoopFinish("create", <<frame.childEntity, p, "unit">>,
                      create_tables(frame.childEntity, p, "unit"), "returned", <<TRUE>>,
                      [frame EXCEPT !.at = "add_child"])

\* xform_system->add_child(rootEntity, childEntity); ++c, and ++i after the last child
loop_add_child ==
    LET r == add_child_tables(frame.rootEntity, frame.childEntity)
    IN  /\ frame.at = "add_child"
        /\ LoopFinish("add_child", <<frame.rootEntity, frame.childEntity>>,
                      r.S, r.outcome, IF r.outcome = "returned" THEN <<TRUE>> ELSE <<>>,
                      IF frame.c + 1 < StressChildren
                      THEN [frame EXCEPT !.c = @ + 1, !.at = "child_id"]
                      ELSE [frame EXCEPT !.c = @ + 1, !.i = @ + 1, !.at = "root_id"])

NextStress ==
    \/ loop_rootEntity
    \/ loop_create_root
    \/ loop_childEntity
    \/ loop_create_child
    \/ loop_add_child

SpecStress == Init /\ [][NextStress]_vars

(***************************************************************************)
(* transform_system::destroy, statement by statement.  stack holds one     *)
(* record per invocation of destroy_recursive in progress, the innermost   *)
(* first: its argument child, the index i of the next element of           *)
(* node.children the loop visits, and the statement it is at.  As in the   *)
(* one-step destroy_recursive above, entering an entity whose invocation   *)
(* is still in progress repeats the same descent without end.              *)
(***************************************************************************)
\* what every statement of destroy_recursive leaves alone
StepFrame == UNCHANGED <<entity_counter, returned, threadVars, regVars, frame, pre, calls>>

\* destroy(e): the two checks, then the call destroy_recursive(e)
destroy_call(e) ==
    /\ CanCall
    /\ IF e = kInvalidEntity \/ ~has_transform(e)
       THEN Finish("destroy", <<e>>, Tables, "invalid_argument", <<>>)
       ELSE /\ stack' = <<[child |-> e, i |-> 1, at |-> "entry"]>>
            /\ last' = [op |-> "destroy", args |-> <<e>>,
                        outcome |-> "in_progress", val |-> <<>>]
            /\ pre' = Snapshot
            /\ calls' = calls + 1
            /\ UNCHANGED <<xformVars, entity_counter, returned, threadVars, regVars,
                           frame, destroyed>>

\* auto & node = scene_graph_transforms[child];
dr_entry ==
    /\ status = "running"
    /\ stack # <<>>
    /\ Head(stack).at = "entry"
    /\ IF \E k \in 2..Len(stack) : stack[k].child = Head(stack).child
       THEN /\ status' = "stack_overflow"
            /\ last' = [last EXCEPT !.outcome = "stack_overflow"]
            /\ UNCHANGED <<scene_graph_transforms, stack>>
       ELSE /\ scene_graph_transforms' =
                   Index(scene_graph_transforms, Head(stack).child,
                         scene_graph_component(kInvalidEntity))
            /\ stack' = [stack EXCEPT ![1].at = "loop"]
            /\ UNCHANGED <<status, last>>
    /\ UNCHANGED <<world_transforms, destroyed>>
    /\ StepFrame

\* the loop that visits only the first element of node.children
dr_loop_first_child_only ==
    LET f == Head(stack)
        cs == scene_graph_transforms[f.child].children
    IN  /\ status = "running"
        /\ stack # <<>>
        /\ f.at = "loop"
        /\ stack' = IF f.i <= Len(cs) /\ f.i <= 1
                    THEN <<[child |-> cs[f.i], i |-> 1, at |-> "entry"]>>
                             \o [stack EXCEPT ![1].i = f.i + 1]
                    ELSE [stack EXCEPT ![1].at = "erase_world"]
        /\ UNCHANGED <<xformVars, last, destroyed>>
        /\ StepFrame

\* for (auto & n : node.children) destroy_recursive(n);
dr_loop ==
    LET f == Head(stack)
        cs == scene_graph_transforms[f.child].children
    IN  /\ status = "running"
        /\ stack # <<>>
        /\ f.at = "loop"
        /\ stack' = IF f.i <= Len(cs)
                    THEN <<[child |-> cs[f.i], i |-> 1, at |-> "entry"]>>
                             \o [stack EXCEPT ![1].i = f.i + 1]
                    ELSE [stack EXCEPT ![1].at = "erase_world"]
        /\ UNCHANGED <<xformVars, last, destroyed>>
        /\ StepFrame

\* world_transforms.erase(child);
dr_erase_world ==
    /\ status = "running"
    /\ stack # <<>>
    /\ Head(stack).at = "erase_world"
    /\ world_transforms' = Erase(world_transforms, Head(stack).child)
    /\ stack' = [stack EXCEPT ![1].at = "erase_scene"]
    /\ UNCHANGED <<scene_graph_transforms, status, last, destroyed>>
    /\ StepFrame

\* scene_graph_transforms.erase(child); and the invocation returns, the outermost
\* one to the caller of destroy
dr_erase_scene ==
    /\ status = "running"
    /\ stack # <<>>
    /\ Head(stack).at = "erase_scene"
    /\ scene_graph_transforms' = Erase(scene_graph_transforms, Head(stack).child)
    /\ stack' = Tail(stack)
    /\ IF Tail(stack) = <<>>
       THEN /\ last' = [last EXCEPT !.outcome = "returned"]
            /\ destroyed' = Destroyed("destroy", last.args,
                                      [sg |-> scene_graph_transforms', wt |-> world_transforms])
       ELSE UNCHANGED <<last, destroyed>>
    /\ UNCHANGED <<world_transforms, status>>
    /\ StepFrame

NextDestroy ==
    \/ \E e \in Entity, p \in Poses, s \in Scales : create(e, p, s)
    \/ \E p \in Entity, c \in Entity : add_child(p, c)
    \/ \E e \in Entity : remove_parent(e)
    \/ \E e \in Entity : destroy_call(e)
    \/ dr_entry
    \/ dr_loop
    \/ dr_erase_world
    \/ dr_erase_scene

SpecDestroy == Init /\ [][NextDestroy]_vars

(***************************************************************************)
(* Vocabulary of the properties.                                           *)
(***************************************************************************)
Elems(s) == {s[i] : i \in DOMAIN s}

Count(s, x) == Cardinality({i \in DOMAIN s : s[i] = x})

ChildrenOf(sg, p) == IF p \in DOMAIN sg THEN Elems(sg[p].children) ELSE {}

\* the entities reachable from root through the children lists of table sg
RECURSIVE ReachFrom(_, _)
ReachFrom(sg, seen) ==
    LET more == seen \cup UNION {ChildrenOf(sg, p) : p \in seen}
    IN  IF more = seen THEN seen ELSE ReachFrom(sg, more)

Reach(sg, root) == ReachFrom(sg, {root})

Returned(op) == last.op = op /\ last.outcome = "returned"

Threw(op) == last.op = op /\ last.outcome = "invalid_argument"

TablesUnchanged ==
    /\ scene_graph_transforms = pre.sg
    /\ world_transforms = pre.wt

(***************************************************************************)
(* C1: while the system runs, for all entities p and c, c is in the        *)
(* children list of p's scene-graph record if and only if c has a          *)
(* scene-graph record whose parent field is p.                             *)
(***************************************************************************)
C1_ParentChildConsistent ==
    status = "running" =>
        \A p \in Entity \ {kInvalidEntity}, c \in Entity :
            (c \in ChildrenOf(scene_graph_transforms, p))
                <=> (c \in DOMAIN scene_graph_transforms
                     /\ scene_graph_transforms[c].parent = p)

(***************************************************************************)
(* C2: while the system runs, the entities with a scene-graph record are   *)
(* exactly the entities with a world-transform record.                     *)
(***************************************************************************)
C2_SameKeys ==
    status = "running" => DOMAIN scene_graph_transforms = DOMAIN world_transforms

(***************************************************************************)
(* C3: the identifiers entity_manager::create has returned, in order of    *)
(* return, start at 1 and strictly increase, so they are distinct and      *)
(* never kInvalidEntity, whatever calls on the transform system were made  *)
(* in between.                                                             *)
(***************************************************************************)
C3_IdsIncrease ==
    /\ returned # <<>> => returned[1] = 1
    /\ \A i, j \in DOMAIN returned : i < j => returned[i] < returned[j]
    /\ \A i \in DOMAIN returned : returned[i] # kInvalidEntity

\* two ids were handed out around a call that changed a non-empty transform system
C3_Witness ==
    /\ Len(returned) >= 2
    /\ last.op = "entity_manager::create"
    /\ last.val = <<Len(returned)>>
    /\ DOMAIN scene_graph_transforms # {}

(***************************************************************************)
(* C4: under every interleaving of the threads' lock, load, store and      *)
(* return steps, no two calls of entity_manager::create return the same    *)
(* identifier, and once no call is in flight the counter equals the number *)
(* of completed calls.                                                     *)
(***************************************************************************)
C4_ConcurrentIdsDistinct ==
    /\ \A i, j \in DOMAIN returned : i # j => returned[i] # returned[j]
    /\ (\A t \in Threads : pc[t] = "idle") => entity_counter = Len(returned)

\* three calls have completed, no call is in flight and the counter is 3
C4_Witness ==
    /\ Len(returned) >= 3
    /\ \A t \in Threads : pc[t] = "idle"
    /\ entity_counter = 3

(***************************************************************************)
(* C5: after any add_child(parent, child) that returned, child occurs      *)
(* exactly once in parent's children list and get_parent(child) is parent. *)
(***************************************************************************)
C5_ChildExactlyOnce ==
    Returned("add_child") =>
        /\ Count(scene_graph_transforms[last.args[1]].children, last.args[2]) = 1
        /\ get_parent(last.args[2]) = last.args[1]

(***************************************************************************)
(* C6: add_child(parent, child) throws invalid_argument whenever parent or *)
(* child is kInvalidEntity or has no scene-graph record, and a call that   *)
(* throws leaves both tables as they were.                                 *)
(***************************************************************************)
C6_AddChildRejects ==
    last.op = "add_child" =>
        /\ (\/ last.args[1] = kInvalidEntity
            \/ last.args[2] = kInvalidEntity
            \/ last.args[1] \notin DOMAIN pre.sg
            \/ last.args[2] \notin DOMAIN pre.sg) => last.outcome = "invalid_argument"
        /\ last.outcome = "invalid_argument" => TablesUnchanged

\* a valid parent with a record, a child without one, rejected in a non-empty system
C6_Witness ==
    /\ Threw("add_child")
    /\ last.args[1] \in DOMAIN pre.sg \ {kInvalidEntity}
    /\ last.args[2] \notin DOMAIN pre.sg \cup {kInvalidEntity}
    /\ TablesUnchanged

(***************************************************************************)
(* C7: after remove_parent(child) returns, for a child whose record had    *)
(* parent p before the call, get_parent(child) is kInvalidEntity and child *)
(* occurs nowhere in p's children list.                                    *)
(***************************************************************************)
C7_RemoveParentDetaches ==
    (/\ Returned("remove_parent")
     /\ last.args[1] \in DOMAIN pre.sg
     /\ pre.sg[last.args[1]].parent # kInvalidEntity) =>
        /\ get_parent(last.args[1]) = kInvalidEntity
        /\ last.args[1] \notin
               ChildrenOf(scene_graph_transforms, pre.sg[last.args[1]].parent)

\* the child had been added to its parent twice, and both occurrences are gone
C7_Witness ==
    /\ Returned("remove_parent")
    /\ last.args[1] \in DOMAIN pre.sg
    /\ pre.sg[last.args[1]].parent \in DOMAIN pre.sg \ {kInvalidEntity}
    /\ Count(pre.sg[pre.sg[last.args[1]].parent].children, last.args[1]) = 2
    /\ pre.sg[last.args[1]].parent \in DOMAIN scene_graph_transforms
    /\ scene_graph_transforms[pre.sg[last.args[1]].parent].children = <<>>

(***************************************************************************)
(* C8: after destroy(root) returns, neither root nor any entity that was   *)
(* reachable from root through children lists has a record in either       *)
(* table: for each, has_transform is false and both pointer lookups give   *)
(* nullptr.                                                                *)
(***************************************************************************)
C8_DestroyRemovesSubtree ==
    Returned("destroy") =>
        \A x \in Reach(pre.sg, last.args[1]) :
            /\ x \notin DOMAIN scene_graph_transforms
            /\ x \notin DOMAIN world_transforms
            /\ ~has_transform(x)
            /\ get_local_transform(x) = <<>>
            /\ get_world_transform(x) = <<>>

\* the destroyed root had a child that had a child of its own
C8_Witness ==
    /\ Returned("destroy")
    /\ \E c \in ChildrenOf(pre.sg, last.args[1]) :
           \E g \in ChildrenOf(pre.sg, c) :
               /\ Cardinality({last.args[1], c, g}) = 3
               /\ g \in DOMAIN pre.wt
               /\ {last.args[1], c, g} \cap DOMAIN scene_graph_transforms = {}

(***************************************************************************)
(* C9: after destroy(c) returns, has_transform(c) is false and no          *)
(* remaining scene-graph record lists a destroyed entity among its         *)
(* children.                                                               *)
(***************************************************************************)
C9_NoDanglingChild ==
    Returned("destroy") =>
        /\ ~has_transform(last.args[1])
        /\ \A r \in DOMAIN scene_graph_transforms :
               ChildrenOf(scene_graph_transforms, r)
                   \cap Reach(pre.sg, last.args[1]) = {}

(***************************************************************************)
(* C10: destroy(e) throws invalid_argument when e is kInvalidEntity or has *)
(* no scene-graph record, and then leaves both tables as they were; after  *)
(* a destroy(e) that returned e has no record, so a second destroy(e)      *)
(* throws.                                                                 *)
(***************************************************************************)
C10_DestroyRejects ==
    last.op = "destroy" =>
        /\ (last.args[1] = kInvalidEntity \/ last.args[1] \notin DOMAIN pre.sg)
               => last.outcome = "invalid_argument"
        /\ last.outcome = "invalid_argument" => TablesUnchanged
        /\ last.outcome = "returned" => last.args[1] \notin DOMAIN scene_graph_transforms

\* destroy of a valid identifier without a record, rejected in a non-empty system
C10_Witness ==
    /\ Threw("destroy")
    /\ last.args[1] # kInvalidEntity
    /\ last.args[1] \notin DOMAIN pre.sg
    /\ DOMAIN pre.sg # {}
    /\ TablesUnchanged

(***************************************************************************)
(* C11: remove_parent(child) throws invalid_argument when child is         *)
(* kInvalidEntity or has no scene-graph record, and then leaves both       *)
(* tables as they were.                                                    *)
(***************************************************************************)
C11_RemoveParentRejects ==
    (/\ last.op = "remove_parent"
     /\ (last.args[1] = kInvalidEntity \/ last.args[1] \notin DOMAIN pre.sg)) =>
        /\ last.outcome = "invalid_argument"
        /\ TablesUnchanged

(***************************************************************************)
(* C12: while the system runs, every entity whose scene-graph record has   *)
(* parent kInvalidEntity has a world-transform record whose world_pose is  *)
(* its local_pose.                                                         *)
(***************************************************************************)
C12_RootWorldIsLocal ==
    status = "running" =>
        \A e \in DOMAIN scene_graph_transforms :
            scene_graph_transforms[e].parent = kInvalidEntity =>
                /\ e \in DOMAIN world_transforms
                /\ world_transforms[e].world_pose = scene_graph_transforms[e].local_pose

\* the pose recalculate_world_transform's rule gives entity d in the current tables
RulePose(d) ==
    IF scene_graph_transforms[d].parent # kInvalidEntity
    THEN Compose(scene_graph_transforms[d].local_pose,
                 scene_graph_transforms[scene_graph_transforms[d].parent].local_pose)
    ELSE scene_graph_transforms[d].local_pose

FollowsRule(d) ==
    /\ d \in DOMAIN scene_graph_transforms
    /\ d \in DOMAIN world_transforms
    /\ scene_graph_transforms[d].parent # kInvalidEntity
           => scene_graph_transforms[d].parent \in DOMAIN scene_graph_transforms
    /\ world_transforms[d].world_pose = RulePose(d)

(***************************************************************************)
(* C13: after an add_child(P, C) that returned, the cached world pose of C *)
(* is local_pose(C) composed with local_pose(P), in that order, and every  *)
(* descendant of P has the pose the same rule gives it with respect to its *)
(* own parent.                                                             *)
(***************************************************************************)
C13_AddChildRecomputes ==
    Returned("add_child") =>
        /\ last.args[2] \in DOMAIN world_transforms
        /\ world_transforms[last.args[2]].world_pose =
               Compose(scene_graph_transforms[last.args[2]].local_pose,
                       scene_graph_transforms[last.args[1]].local_pose)
        /\ \A d \in Reach(scene_graph_transforms, last.args[1]) : FollowsRule(d)

\* parent and child carry different poses and the parent has a further descendant
C13_Witness ==
    /\ Returned("add_child")
    /\ scene_graph_transforms[last.args[2]].local_pose
           # scene_graph_transforms[last.args[1]].local_pose
    /\ scene_graph_transforms[last.args[2]].local_pose # DefaultPose
    /\ scene_graph_transforms[last.args[1]].local_pose # DefaultPose
    /\ Cardinality(Reach(scene_graph_transforms, last.args[1])) >= 3
    /\ world_transforms[last.args[2]].world_pose =
           scene_graph_transforms[last.args[2]].local_pose
               \o scene_graph_transforms[last.args[1]].local_pose

\* the local poses from e up to its root, composed
RECURSIVE ChainPose(_, _, _)
ChainPose(sg, e, fuel) ==
    IF fuel = 0 \/ sg[e].parent = kInvalidEntity \/ sg[e].parent \notin DOMAIN sg
    THEN sg[e].local_pose
    ELSE Compose(sg[e].local_pose, ChainPose(sg, sg[e].parent, fuel - 1))

\* a hierarchy as create and add_child alone build it: every record made by create,
\* both tables with the same keys, parent fields and children lists agreeing, no
\* child listed twice
BuiltHierarchy ==
    /\ status = "running"
    /\ DOMAIN scene_graph_transforms = DOMAIN world_transforms
    /\ kInvalidEntity \notin DOMAIN scene_graph_transforms
    /\ \A e \in DOMAIN scene_graph_transforms :
           /\ scene_graph_transforms[e].e = e
           /\ scene_graph_transforms[e].local_pose \in Poses
           /\ \A c \in Entity : Count(scene_graph_transforms[e].children, c) <= 1
    /\ \A p \in Entity \ {kInvalidEntity}, c \in Entity :
           (c \in ChildrenOf(scene_graph_transforms, p))
               <=> (c \in DOMAIN scene_graph_transforms
                    /\ scene_graph_transforms[c].parent = p)

(***************************************************************************)
(* C14: in a hierarchy built with create and add_child, the cached world   *)
(* pose of every entity is the composition of the local poses along the    *)
(* whole chain from the entity up to its root.                             *)
(***************************************************************************)
C14_WorldPoseIsChain ==
    BuiltHierarchy =>
        \A e \in DOMAIN scene_graph_transforms :
            world_transforms[e].world_pose
                = ChainPose(scene_graph_transforms, e, MaxEntity + 1)

(***************************************************************************)
(* C15: children lists are in insertion order: add_child(parent, child)    *)
(* appends child at the end of parent's list, remove_parent(child) takes   *)
(* child out of its parent's list and keeps the order of the others, and   *)
(* neither changes the list of any other record.                           *)
(***************************************************************************)
C15_InsertionOrder ==
    /\ Returned("add_child") =>
           /\ scene_graph_transforms[last.args[1]].children
                  = Append(pre.sg[last.args[1]].children, last.args[2])
           /\ \A q \in DOMAIN pre.sg \ {last.args[1]} :
                  /\ q \in DOMAIN scene_graph_transforms
                  /\ scene_graph_transforms[q].children = pre.sg[q].children
    /\ Returned("remove_parent") =>
           \A q \in DOMAIN pre.sg :
               /\ q \in DOMAIN scene_graph_transforms
               /\ scene_graph_transforms[q].children =
                      IF /\ last.args[1] \in DOMAIN pre.sg
                         /\ pre.sg[last.args[1]].parent = q
                      THEN SelectSeq(pre.sg[q].children, LAMBDA x : x # last.args[1])
                      ELSE pre.sg[q].children

\* the first of two siblings was detached and the second one is what remains
C15_Witness ==
    /\ Returned("remove_parent")
    /\ last.args[1] \in DOMAIN pre.sg
    /\ pre.sg[last.args[1]].parent \in DOMAIN pre.sg \ {kInvalidEntity}
    /\ Len(pre.sg[pre.sg[last.args[1]].parent].children) = 2
    /\ pre.sg[pre.sg[last.args[1]].parent].children[1] = last.args[1]
    /\ pre.sg[pre.sg[last.args[1]].parent].children[2] # last.args[1]
    /\ scene_graph_transforms[pre.sg[last.args[1]].parent].children
           = <<pre.sg[pre.sg[last.args[1]].parent].children[2]>>

(***************************************************************************)
(* C16: transform create(e, pose, scale) always returns true, and then e   *)
(* has both records, with local_pose = pose, local_scale = scale, parent   *)
(* kInvalidEntity, no children and world_pose = pose, also when e had      *)
(* records with a parent and children before.                              *)
(***************************************************************************)
C16_CreateResets ==
    last.op = "create" =>
        /\ last.outcome = "returned"
        /\ last.val = <<TRUE>>
        /\ last.args[1] \in DOMAIN scene_graph_transforms
        /\ last.args[1] \in DOMAIN world_transforms
        /\ scene_graph_transforms[last.args[1]].local_pose = last.args[2]
        /\ scene_graph_transforms[last.args[1]].local_scale = last.args[3]
        /\ scene_graph_transforms[last.args[1]].parent = kInvalidEntity
        /\ scene_graph_transforms[last.args[1]].children = <<>>
        /\ world_transforms[last.args[1]].world_pose = last.args[2]

\* the entity created again had a parent and a child just before
C16_Witness ==
    /\ Returned("create")
    /\ last.args[1] \in DOMAIN pre.sg
    /\ pre.sg[last.args[1]].parent # kInvalidEntity
    /\ pre.sg[last.args[1]].children # <<>>
    /\ scene_graph_transforms[last.args[1]].parent = kInvalidEntity
    /\ scene_graph_transforms[last.args[1]].children = <<>>

\* what the storage of the system at address ptr holds for entity e: <<>> for
\* nothing, else the value of the stored component
StoredValue(ptr, e) ==
    IF heap[ptr].type = "transform_system"
    THEN IF e \in DOMAIN scene_graph_transforms \/ e \in DOMAIN world_transforms
         THEN <<"transform">> ELSE <<>>
    ELSE IF e \in DOMAIN heap[ptr].components
         THEN <<heap[ptr].components[e].value>> ELSE <<>>

StorageUnchanged ==
    /\ heap = pre.heap
    /\ TablesUnchanged

(***************************************************************************)
(* C17: for every system variant, the type-erased create(entity, type_tag, *)
(* data) returns false whenever type_tag is not a component type the       *)
(* system owns, and then stores nothing.                                   *)
(***************************************************************************)
C17_ForeignTypeRejected ==
    (/\ last.op = "system_create"
     /\ last.args[3] \notin Owns(heap[last.args[1]].type)) =>
        /\ last.val = <<FALSE>>
        /\ StorageUnchanged

(***************************************************************************)
(* C18: for every system variant, whenever the type-erased create returns  *)
(* true the system's storage holds under key entity a component with the   *)
(* value passed through data, and the entries of other entities are as     *)
(* before.                                                                 *)
(***************************************************************************)
C18_CreateStores ==
    (last.op = "system_create" /\ last.val = <<TRUE>>) =>
        /\ StoredValue(last.args[1], last.args[2]) = <<last.args[4].value>>
        /\ \A x \in Entity \ {last.args[2]} :
               /\ x \in DOMAIN heap[last.args[1]].components
                      <=> x \in DOMAIN pre.heap[last.args[1]].components
               /\ x \in DOMAIN heap[last.args[1]].components =>
                      heap[last.args[1]].components[x]
                          = pre.heap[last.args[1]].components[x]

(***************************************************************************)
(* C19: after destroy(entity) on a system, the system's storage holds no   *)
(* component for that entity, and destroy on an entity without components  *)
(* changes nothing.                                                        *)
(***************************************************************************)
C19_DestroyRemoves ==
    last.op = "system_destroy" =>
        /\ StoredValue(last.args[1], last.args[2]) = <<>>
        /\ last.args[2] \notin DOMAIN pre.heap[last.args[1]].components
               => StorageUnchanged

(***************************************************************************)
(* C20: add_system(type, system) leaves the systems map as it was when     *)
(* system is null or type is already a key, and otherwise adds exactly the *)
(* entry type -> system; so no call ever changes or removes an entry the   *)
(* map holds, and no entry is null.                                        *)
(***************************************************************************)
C20_FirstRegistrationWins ==
    /\ last.op = "add_system" =>
           IF last.args[2] = 0 \/ last.args[1] \in DOMAIN pre.systems
           THEN systems = pre.systems
           ELSE /\ DOMAIN systems = DOMAIN pre.systems \cup {last.args[1]}
                /\ systems[last.args[1]] = last.args[2]
    /\ \A t \in DOMAIN pre.systems : t \in DOMAIN systems /\ systems[t] = pre.systems[t]
    /\ \A t \in DOMAIN systems : systems[t] # 0

\* a second, different, non-null system offered for a registered type was ignored
C20_Witness ==
    /\ last.op = "add_system"
    /\ last.args[2] # 0
    /\ last.args[1] \in DOMAIN pre.systems
    /\ pre.systems[last.args[1]] # last.args[2]
    /\ systems[last.args[1]] = pre.systems[last.args[1]]
    /\ Cardinality(DOMAIN systems) >= 2

(***************************************************************************)
(* C21: after every create_system<T>, also a second one for the same T,    *)
(* the instance whose pointer was returned is the one the systems map      *)
(* records under T, so every constructed instance is recorded and no type  *)
(* has two instances.                                                      *)
(***************************************************************************)
C21_ReturnedIsRecorded ==
    /\ last.op = "create_system" =>
           /\ last.args[1] \in DOMAIN systems
           /\ systems[last.args[1]] = last.val[1]
    /\ \A p, q \in DOMAIN heap : heap[p].type = heap[q].type => p = q

\* the ids main obtained for tree k of the stress loop (k = 0 is the first tree)
StressRoot(k) == returned[k * (StressChildren + 1) + 1]

StressChild(k, j) == returned[k * (StressChildren + 1) + 1 + j]

\* the records the last call of the stress loop was entitled to write
Touched ==
    IF last.op = "create" THEN {last.args[1]}
    ELSE IF last.op = "add_child" THEN {last.args[1], last.args[2]}
    ELSE {}

(***************************************************************************)
(* C22: after every step of the stress loop the two tables have the same   *)
(* keys; the call just made changed no record of an entity other than the  *)
(* one it created or the root and child it linked, and to that root it     *)
(* only appended the child; every tree built so far has its root without   *)
(* parent, listing exactly its own children in insertion order, each child *)
(* with that root as parent and no children, with the world poses the      *)
(* composition rule gives.                                                 *)
(***************************************************************************)
C22_StressKeepsTrees ==
    /\ status = "running"
    /\ frame.at # "terminated"
    /\ DOMAIN scene_graph_transforms = DOMAIN world_transforms
    /\ \A e \in DOMAIN pre.sg \ Touched :
           /\ e \in DOMAIN scene_graph_transforms
           /\ scene_graph_transforms[e] = pre.sg[e]
           /\ world_transforms[e] = pre.wt[e]
    /\ last.op = "create" => last.args[1] \notin DOMAIN pre.sg
    /\ last.op = "add_child" =>
           /\ scene_graph_transforms[last.args[1]] =
                  [pre.sg[last.args[1]] EXCEPT !.children = Append(@, last.args[2])]
           /\ world_transforms[last.args[1]] = pre.wt[last.args[1]]
           /\ scene_graph_transforms[last.args[2]] =
                  [pre.sg[last.args[2]] EXCEPT !.parent = last.args[1]]
    /\ \A k \in 0..(frame.i - 1) :
           /\ scene_graph_transforms[StressRoot(k)].parent = kInvalidEntity
           /\ scene_graph_transforms[StressRoot(k)].children
                  = [j \in 1..StressChildren |-> StressChild(k, j)]
           /\ world_transforms[StressRoot(k)].world_pose
                  = scene_graph_transforms[StressRoot(k)].local_pose
           /\ \A j \in 1..StressChildren :
                  /\ scene_graph_transforms[StressChild(k, j)].parent = StressRoot(k)
                  /\ scene_graph_transforms[StressChild(k, j)].children = <<>>
                  /\ world_transforms[StressChild(k, j)].world_pose
                         = Compose(scene_graph_transforms[StressChild(k, j)].local_pose,
                                   scene_graph_transforms[StressRoot(k)].local_pose)

\* the second tree has just received its last child, next to a complete first tree
\* whose root carries another pose than the second root
C22_Witness ==
    /\ frame.i = 2
    /\ Returned("add_child")
    /\ last.args[1] = StressRoot(1)
    /\ Len(scene_graph_transforms[StressRoot(0)].children) = StressChildren
    /\ Len(scene_graph_transforms[StressRoot(1)].children) = StressChildren
    /\ scene_graph_transforms[StressRoot(0)].local_pose
           # scene_graph_transforms[StressRoot(1)].local_pose
    /\ Cardinality(DOMAIN world_transforms) = 2 * (StressChildren + 1)

\* the entities reached from e by following parent fields of table sg, e excluded
RECURSIVE AncestorsFrom(_, _)
AncestorsFrom(sg, seen) ==
    LET more == seen \cup ({sg[x].parent : x \in seen \cap DOMAIN sg} \ {kInvalidEntity})
    IN  IF more = seen THEN seen ELSE AncestorsFrom(sg, more)

Ancestors(sg, e) ==
    IF e \in DOMAIN sg /\ sg[e].parent # kInvalidEntity
    THEN AncestorsFrom(sg, {sg[e].parent}) ELSE {}

Descendants(sg, e) == ReachFrom(sg, ChildrenOf(sg, e))

(***************************************************************************)
(* C23: in every reachable state no entity is reachable from itself by     *)
(* following children lists, nor by following parent fields.               *)
(***************************************************************************)
C23_Acyclic ==
    \A e \in DOMAIN scene_graph_transforms :
        /\ e \notin Descendants(scene_graph_transforms, e)
        /\ e \notin Ancestors(scene_graph_transforms, e)

(***************************************************************************)
(* C24: every call of create, add_child, remove_parent and destroy ends,   *)
(* by returning or by throwing: none recurses without end.                 *)
(***************************************************************************)
C24_CallsTerminate ==
    /\ status = "running"
    /\ last.op \in {"create", "add_child", "remove_parent", "destroy"} =>
           last.outcome \in {"returned", "invalid_argument"}

(***************************************************************************)
(* C25: the four lookups leave both tables as they were, whatever their    *)
(* argument; for kInvalidEntity, and for an entity without the record they *)
(* look up, has_transform is false, the two pointer lookups are nullptr    *)
(* and get_parent is kInvalidEntity.                                       *)
(***************************************************************************)
C25_LookupsPure ==
    /\ last.op \in {"has_transform", "get_local_transform",
                    "get_world_transform", "get_parent"} => TablesUnchanged
    /\ (/\ last.op = "has_transform"
        /\ (last.args[1] = kInvalidEntity \/ last.args[1] \notin DOMAIN pre.sg))
           => last.val = <<FALSE>>
    /\ (/\ last.op = "get_local_transform"
        /\ (last.args[1] = kInvalidEntity \/ last.args[1] \notin DOMAIN pre.sg))
           => last.val = <<>>
    /\ (/\ last.op = "get_world_transform"
        /\ (last.args[1] = kInvalidEntity \/ last.args[1] \notin DOMAIN pre.wt))
           => last.val = <<>>
    /\ (/\ last.op = "get_parent"
        /\ (last.args[1] = kInvalidEntity \/ last.args[1] \notin DOMAIN pre.sg))
           => last.val = <<kInvalidEntity>>

\* every entity below n in the children lists as they were when destroy was called
\* has neither record now
SubtreeBelowErased(n) ==
    \A d \in Descendants(pre.sg, n) \ {n} :
        /\ d \notin DOMAIN scene_graph_transforms
        /\ d \notin DOMAIN world_transforms

(***************************************************************************)
(* C26: in every step of destroy that erases a record of a node, every     *)
(* entity in the node's children list, and transitively every descendant,  *)
(* has no record in either table any more; the step that erases the node's *)
(* scene-graph record finds its world-transform record already erased.     *)
(***************************************************************************)
C26_ChildrenErasedFirst ==
    [][\A n \in Entity :
          /\ (n \in DOMAIN world_transforms /\ n \notin DOMAIN world_transforms')
                 => /\ stack # <<>>
                    /\ n \in DOMAIN scene_graph_transforms
                    /\ SubtreeBelowErased(n)
          /\ (n \in DOMAIN scene_graph_transforms /\ n \notin DOMAIN scene_graph_transforms')
                 => /\ stack # <<>>
                    /\ n \notin DOMAIN world_transforms
                    /\ SubtreeBelowErased(n)]_vars

\* destroy is about to erase the scene-graph record of a root whose child and
\* grandchild, which had both records, are already gone
C26_Witness ==
    /\ Len(stack) = 1
    /\ Head(stack).at = "erase_scene"
    /\ Head(stack).child \in DOMAIN scene_graph_transforms
    /\ Head(stack).child \in DOMAIN pre.wt \ DOMAIN world_transforms
    /\ \E c \in ChildrenOf(pre.sg, Head(stack).child) :
           \E g \in ChildrenOf(pre.sg, c) :
               /\ Cardinality({Head(stack).child, c, g}) = 3
               /\ {c, g} \subseteq DOMAIN pre.wt
               /\ {c, g} \cap DOMAIN scene_graph_transforms = {}
               /\ {c, g} \cap DOMAIN world_transforms = {}

(***************************************************************************)
(* C27: while the system runs, an entity whose records a destroy call      *)
(* removed has no scene-graph record and no world-transform record until   *)
(* transform create is called for it again.                                *)
(***************************************************************************)
C27_DestroyedStayGone ==
    status = "running" =>
        \A e \in destroyed :
            /\ e \notin DOMAIN scene_graph_transforms
            /\ e \notin DOMAIN world_transforms

\* the pose recalculate_world_transform's rule gives entity e against the local pose
\* its parent has now (a default-constructed pose for a parent without record)
CurrentRulePose(e) ==
    LET p == scene_graph_transforms[e].parent
    IN  Compose(scene_graph_transforms[e].local_pose,
                IF p \in DOMAIN scene_graph_transforms
                THEN scene_graph_transforms[p].local_pose ELSE DefaultPose)

(***************************************************************************)
(* C28: while the system runs, every entity whose scene-graph record has a *)
(* parent other than kInvalidEntity has a world-transform record whose     *)
(* world_pose is its local pose composed with the local pose its parent    *)
(* has now.                                                                *)
(***************************************************************************)
C28_ChildPoseCurrent ==
    status = "running" =>
        \A e \in DOMAIN scene_graph_transforms :
            scene_graph_transforms[e].parent # kInvalidEntity =>
                /\ e \in DOMAIN world_transforms
                /\ world_transforms[e].world_pose = CurrentRulePose(e)

(***************************************************************************)
(* C29: kInvalidEntity is never a key of the scene-graph table nor of the  *)
(* world-transform table.                                                  *)
(***************************************************************************)
C29_InvalidNeverKey ==
    /\ kInvalidEntity \notin DOMAIN scene_graph_transforms
    /\ kInvalidEntity \notin DOMAIN world_transforms

(***************************************************************************)
(* C30: in every storage table, of the data-component systems and of the   *)
(* transform system, the component stored under key e carries the entity   *)
(* tag e.                                                                  *)
(***************************************************************************)
C30_TagIsKey ==
    /\ \A ptr \in DOMAIN heap :
           \A e \in DOMAIN heap[ptr].components : heap[ptr].components[e].e = e
    /\ \A e \in DOMAIN scene_graph_transforms : scene_graph_transforms[e].e = e
    /\ \A e \in DOMAIN world_transforms : world_transforms[e].e = e

=============================================================================
